---- MODULE Spec2Model ----
(***************************************************************************)
(* Job orchestration core of the oaAnsible server: the Job Manager (cache  *)
(* in front of the sqlite job table), the deployment request handler, the  *)
(* background execution task and the Ansible executor that drives the      *)
(* child process and streams its output into the job log; the retention   *)
(* sweep of the Job Manager and the executor's dependency resolver.        *)
(*                                                                         *)
(* The server runs on one asyncio event loop.  A coroutine only gives up   *)
(* the loop at an await that really suspends: the subprocess spawn, the    *)
(* read of the next output line and the wait for process exit.  Every Job  *)
(* Manager method runs without suspending (the lock is never held across   *)
(* an await and sqlite3 is synchronous), so each is one atomic step.       *)
(***************************************************************************)
EXTENDS Integers, Sequences, FiniteSets, TLC

\* ---------------------------------------------------------------- bounds
MaxJobs == 1
MaxLines == 2
MaxTime == 1
MaxDays == 10
MaxLen == 2
MaxUptime == 2

JobIds == 1..MaxJobs
Times == 0..MaxTime

\* ------------------------------------------------------------- constants
QUEUED == "queued"
RUNNING == "running"
COMPLETED == "completed"
FAILED == "failed"
CANCELLED == "cancelled"

JobStatus == {QUEUED, RUNNING, COMPLETED, FAILED, CANCELLED}
TerminalStatus == {COMPLETED, FAILED, CANCELLED}

environments == {"staging", "production", "preprod"}

available_components ==
    {"macos-api", "macos-tracker", "alpr", "base-system", "python", "node",
     "network-stack", "ubuntu-docker", "opi-player"}

\* Requests the gateway is driven with: one accepted environment and one
\* outside the fixed set; an empty, a known and an unknown component list.
RequestEnvironments == {"staging", "qa"}
RequestComponents == {<<>>, <<"macos-api">>, <<"bogus">>}

\* Exit codes of the external tool.
ExitCodes == {0, 2}

\* ------------------------------------------------------------ data model
\* Records list their fields in the order in which the names first occur
\* in this module, the order in which TLC keeps them.
NoError == [kind |-> "", names |-> <<>>]
Error(kind, names) == [kind |-> kind, names |-> names]

NoMessage == [text |-> "", error |-> NoError]
Message(text) == [text |-> text, error |-> NoError]
MessageWith(text, err) == [text |-> text, error |-> err]

\* result is None until the task stores the executor's dict
NoResult ==
    [kind |-> "none", error |-> NoError, success |-> FALSE, returncode |-> 0,
     stdout |-> <<>>]

Job(job_id, status, t, data, message) ==
    [job_id |-> job_id, status |-> status, data |-> data, message |-> message,
     created_at |-> t, updated_at |-> t, result |-> NoResult, logs |-> <<>>]

\* dict assignment d[k] = v
Put(d, k, v) == [x \in (DOMAIN d) \cup {k} |-> IF x = k THEN v ELSE d[x]]

EmptyDict == [x \in {} |-> NoResult]

\* Python truthiness of the optional arguments of update_job_status
MessageTruthy(m) == m.text # ""
ResultTruthy(r) == r.kind # "none"

IsPrefix(s, t) ==
    /\ Len(s) <= Len(t)
    /\ \A i \in 1..Len(s) : s[i] = t[i]

\* ----------------------------------------------------------- Job Manager
\* A manager instance is its cache c; all instances share the table d
\* (every JobManager() opens the same default database file).  Each
\* operation returns the instance's new cache, the new table and the value
\* handed back to the caller.

Ret(c, d, ret) == [ret |-> ret, cache |-> c, db |-> d]

\* A JobManager() constructed on the spot starts with an empty cache.
FreshManager == EmptyDict

job_exists(c, d, job_id) == job_id \in DOMAIN c \/ job_id \in DOMAIN d

\* get_job: the cached object if there is one, otherwise the row, which is
\* then cached.
get_job(c, d, job_id) ==
    IF job_id \in DOMAIN c THEN c[job_id] ELSE d[job_id]

get_job_cache(c, d, job_id) ==
    IF job_id \in DOMAIN c THEN c
    ELSE IF job_id \in DOMAIN d THEN Put(c, job_id, d[job_id])
    ELSE c

get_job_logs(c, d, job_id) ==
    IF job_exists(c, d, job_id) THEN get_job(c, d, job_id).logs ELSE <<>>

\* total of list_jobs without filters: SELECT COUNT(*) FROM jobs
list_jobs_total(d) == Cardinality(DOMAIN d)

create_job_skewed(c, d, job_id, data, t) ==
    LET job == [Job(job_id, QUEUED, t, data,
                    Message("Job created and queued"))
                  EXCEPT !.updated_at = t + 1]
    IN  Ret(Put(c, job_id, job), Put(d, job_id, job), job)

create_job(c, d, job_id, data, t) ==
    LET job == Job(job_id, QUEUED, t, data,
                   Message("Job created and queued"))
    IN  Ret(Put(c, job_id, job), Put(d, job_id, job), job)

update_job_status(c, d, job_id, status, message, result, t) ==
    IF ~job_exists(c, d, job_id) THEN Ret(c, d, "None")
    ELSE
      LET job == get_job(c, d, job_id)
          c1 == get_job_cache(c, d, job_id)
          updated ==
              [job EXCEPT
                 !.status = status,
                 !.updated_at = t,
                 !.message = IF MessageTruthy(message) THEN message ELSE @,
                 !.result = IF ResultTruthy(result) THEN result ELSE @]
          \* UPDATE jobs SET status, updated_at, message, result WHERE job_id
          d1 == IF job_id \in DOMAIN d
                THEN [d EXCEPT ![job_id] =
                        [@ EXCEPT !.status = updated.status,
                                  !.updated_at = updated.updated_at,
                                  !.message = updated.message,
                                  !.result = updated.result]]
                ELSE d
      IN  Ret(Put(c1, job_id, updated), d1, "None")

\* "[timestamp] entry": the line behind a timestamp prefix.  Nothing reads
\* the prefix back, so its digits are left out.
LogEntry(t, log_entry) == [prefix |-> "[timestamp] ", entry |-> log_entry]

add_job_log_front(c, d, job_id, log_entry, t) ==
    IF ~job_exists(c, d, job_id) THEN Ret(c, d, "None")
    ELSE
      LET job == get_job(c, d, job_id)
          c1 == get_job_cache(c, d, job_id)
          updated ==
              [job EXCEPT
                 !.logs = <<LogEntry(t, log_entry)>> \o @,
                 !.updated_at = t]
          d1 == IF job_id \in DOMAIN d
                THEN [d EXCEPT ![job_id] =
                        [@ EXCEPT !.logs = updated.logs,
                                  !.updated_at = updated.updated_at]]
                ELSE d
      IN  Ret(Put(c1, job_id, updated), d1, "None")

add_job_log(c, d, job_id, log_entry, t) ==
    IF ~job_exists(c, d, job_id) THEN Ret(c, d, "None")
    ELSE
      LET job == get_job(c, d, job_id)
          c1 == get_job_cache(c, d, job_id)
          updated ==
              [job EXCEPT
                 !.logs = Append(@, LogEntry(t, log_entry)),
                 !.updated_at = t]
          \* UPDATE jobs SET logs, updated_at WHERE job_id
          d1 == IF job_id \in DOMAIN d
                THEN [d EXCEPT ![job_id] =
                        [@ EXCEPT !.logs = updated.logs,
                                  !.updated_at = updated.updated_at]]
                ELSE d
      IN  Ret(Put(c1, job_id, updated), d1, "None")

cancel_job_unguarded(c, d, job_id, t) ==
    IF ~job_exists(c, d, job_id) THEN Ret(c, d, FALSE)
    ELSE
      LET c1 == get_job_cache(c, d, job_id)
          r == update_job_status(c1, d, job_id, CANCELLED,
                                 Message("Job cancelled by user"),
                                 NoResult, t)
      IN  Ret(r.cache, r.db, TRUE)

cancel_job(c, d, job_id, t) ==
    IF ~job_exists(c, d, job_id) THEN Ret(c, d, FALSE)
    ELSE
      LET job == get_job(c, d, job_id)
          c1 == get_job_cache(c, d, job_id)
      IN  IF job.status \in {COMPLETED, FAILED, CANCELLED}
          THEN Ret(c1, d, FALSE)
          ELSE LET r == update_job_status(c1, d, job_id, CANCELLED,
                                          Message("Job cancelled by user"),
                                          NoResult, t)
               IN  Ret(r.cache, r.db, TRUE)

\* The retention sweep reads the clock in days.  The calendar: months of
\* DaysInMonth days, day 0 being the first of a month.
DaysInMonth == 30
day_of_month(t) == (t % DaysInMonth) + 1

\* job_cleanup_days of the server configuration, the default of days_old
job_cleanup_days == 7

\* DELETE ... WHERE status IN (...) AND created_at < datetime('now',
\* '-N days') compares the stored ISO text with sqlite's text: the dates
\* decide, and on equal dates 'T' sorts after ' '.  In whole days: the row
\* goes when it was created on a date before the cutoff date.  Then the
\* cache: replace(day=now.day - days_old) raises ValueError when that is
\* no day of the month; the except branch returns 0 with the rows
\* already deleted and the cache as it was.
cleanup_old_jobs(c, d, days_old, t) ==
    LET deleted ==
            {j \in DOMAIN d :
               /\ d[j].status \in {COMPLETED, FAILED, CANCELLED}
               /\ d[j].created_at < t - days_old}
        d1 == [j \in (DOMAIN d) \ deleted |-> d[j]]
    IN  IF day_of_month(t) - days_old < 1
        THEN Ret(c, d1, 0)
        ELSE LET cutoff_date == t - days_old
                 to_remove ==
                     {j \in DOMAIN c :
                        /\ c[j].created_at < cutoff_date
                        /\ c[j].status \in {COMPLETED, FAILED, CANCELLED}}
             IN  Ret([j \in (DOMAIN c) \ to_remove |-> c[j]], d1,
                     Cardinality(deleted))

\* the sqlite call of update_job_status raises: the Job object, which is
\* the cached one, has been assigned already; the table is as it was
StoreError == Error("sqlite3.OperationalError", <<>>)

update_job_status_raises(c, d, job_id, status, message, result, t) ==
    Ret(update_job_status(c, d, job_id, status, message, result, t).cache,
        d, "raise")

\* -------------------------------------------------------------- executor
InvalidComponents(components) ==
    SelectSeq(components, LAMBDA c : c \notin available_components)

\* validation at the head of execute_component_deployment; the inventory
\* file of the environment may or may not be on disk
validation_error(environment, components, inventory_exists) ==
    IF environment \notin environments
    THEN Error("Invalid environment", <<environment>>)
    ELSE IF InvalidComponents(components) # <<>>
    THEN Error("Invalid components", InvalidComponents(components))
    ELSE IF ~inventory_exists
    THEN Error("Inventory not found for environment", <<environment>>)
    ELSE NoError

\* what _run_command_with_logging returns
CommandResult(rc, out, err) ==
    [returncode |-> rc, stdout |-> out, stderr |-> err]

SpawnError == Error("spawn failed", <<>>)

\* the dict execute_component_deployment returns after the command ran
DeploymentResult_any_exit(cmd) ==
    [kind |-> "run", error |-> NoError, success |-> TRUE,
     returncode |-> cmd.returncode, stdout |-> cmd.stdout]

DeploymentResult(cmd) ==
    LET success == cmd.returncode = 0
    IN  [kind |-> "run", error |-> IF ~success THEN cmd.stderr ELSE NoError,
         success |-> success, returncode |-> cmd.returncode,
         stdout |-> cmd.stdout]

\* the dict of its except branch
ErrorResult(err) ==
    [kind |-> "error", error |-> err, success |-> FALSE, returncode |-> 0,
     stdout |-> <<>>]

OutputLine(n) == [text |-> "line", n |-> n]
ErrorLine(err) == [text |-> "ERROR", n |-> 0]

\* ---------------------------------------------------- dependency resolver
\* "requires" of each entry of self.available_components
available_requires ==
    ("macos-api" :> <<"python", "base-system">>)
    @@ ("macos-tracker" :> <<"python", "base-system", "macos-api">>)
    @@ ("alpr" :> <<"python", "base-system">>)
    @@ ("base-system" :> <<>>)
    @@ ("python" :> <<"base-system">>)
    @@ ("node" :> <<"base-system">>)
    @@ ("network-stack" :> <<"base-system">>)
    @@ ("ubuntu-docker" :> <<"base-system">>)
    @@ ("opi-player" :> <<"base-system", "python">>)

\* an executor whose table holds the three-entry chain
scenario_requires ==
    ("tracker" :> <<"python">>)
    @@ ("python" :> <<"base-system">>)
    @@ ("base-system" :> <<>>)

\* tables the code does not expect: two entries that require each other,
\* and an entry that requires a name the table does not have
cyclic_requires ==
    ("a" :> <<"b">>)
    @@ ("b" :> <<"a">>)
    @@ ("c" :> <<"a", "base-system">>)
    @@ ("base-system" :> <<>>)

dangling_requires ==
    ("a" :> <<"ghost", "base-system">>)
    @@ ("b" :> <<"a">>)
    @@ ("c" :> <<"base-system">>)
    @@ ("base-system" :> <<>>)

Range(s) == {s[i] : i \in 1..Len(s)}

\* for dep in deps: if dep not in resolved: to_process.insert(0, dep)
insert_front_skipped(deps, resolved, to_process) == to_process

RECURSIVE insert_front(_, _, _)
insert_front(deps, resolved, to_process) ==
    IF deps = <<>> THEN to_process
    ELSE insert_front(Tail(deps), resolved,
                      IF Head(deps) \notin resolved
                      THEN <<Head(deps)>> \o to_process
                      ELSE to_process)

\* the while loop; added is the set resolved as the sequence of its
\* resolved.add calls
RECURSIVE resolve_loop(_, _, _)
resolve_loop(reg, to_process, added) ==
    IF to_process = <<>> THEN added
    ELSE LET component == Head(to_process)
             rest == Tail(to_process)
         IN  IF component \in Range(added)
             THEN resolve_loop(reg, rest, added)
             ELSE IF component \notin DOMAIN reg
             THEN resolve_loop(reg, rest, added)
             ELSE resolve_loop(reg,
                               insert_front(reg[component], Range(added),
                                            rest),
                               Append(added, component))

priority_order == <<"base-system", "python", "node", "network-stack">>

get_priority(comp) ==
    IF comp \in Range(priority_order)
    THEN (CHOOSE i \in 1..Len(priority_order) : priority_order[i] = comp) - 1
    ELSE 100

\* sorted(iterable, key=get_priority): a stable sort
RECURSIVE sorted(_)
sorted(iteration) ==
    IF iteration = <<>> THEN <<>>
    ELSE LET n == Len(iteration)
             x == iteration[n]
             front == sorted(SubSeq(iteration, 1, n - 1))
             k == Cardinality({i \in 1..(n - 1) :
                                 get_priority(front[i]) <= get_priority(x)})
         IN  SubSeq(front, 1, k) \o <<x>> \o SubSeq(front, k + 1, n - 1)

\* The orders in which iterating a set of strings can yield its elements:
\* the order follows the strings' hashes, which are salted per process,
\* and the order the elements were added in.
SetIterations(added) ==
    {[i \in 1..Len(added) |-> f[added[i]]] : f \in Permutations(Range(added))}

\* ------------------------------------------------------- request gateway
Request(environment, components) ==
    [components |-> components, environment |-> environment]
NoRequest == Request("", <<>>)

request_error_lax(request) ==
    IF request.components = <<>> THEN "No components specified"
    ELSE ""

\* the two checks at the head of deploy_components
request_error(request) ==
    IF request.components = <<>> THEN "No components specified"
    ELSE IF request.environment \notin {"staging", "production", "preprod"}
    THEN "Invalid environment"
    ELSE ""

\* --------------------------------------------------------------- state
VARIABLES
    db,         \* the jobs table: job_id -> row
    cache,      \* _jobs_cache of the server's global JobManager
    now,        \* wall clock
    pc,         \* position of each job's background task
    proc,       \* child process of each job: "none", "running", "exited",
                \* "spawn_failed"
    returncode, \* exit code of each job's child process
    output_lines, \* lines the executor has read so far
    job_data,   \* the request each background task was scheduled with
    cancel_ack, \* per job: "" until a cancel returned True; then whether
                \* that cancel found the job Running with a live child
    lastOp,     \* the gateway call just answered, if that was the last step
    registry,   \* the executor's component table: name -> requires
    requested,  \* the component list a resolution was asked for
    calls,      \* the calls of _resolve_component_dependencies so far
    client      \* a client's stream_job_logs generator: its position, the
                \* job, the status it last read, last_log_count and the
                \* entries it has yielded

job_vars ==
    <<db, cache, now, pc, proc, returncode, output_lines, job_data,
      cancel_ack, lastOp, client>>

resolver_vars == <<registry, requested, calls>>

vars ==
    <<db, cache, now, pc, proc, returncode, output_lines, job_data,
      cancel_ack, lastOp, registry, requested, calls, client>>

Op(op, job, ret) == [ret |-> ret, job |-> job, op |-> op]
NoOp == Op("", 0, "")

NoCancel == ""

\* the state of stream_job_logs; NotStreaming before any call
Stream(at, job_id, status, last_log_count, yielded) ==
    [job_id |-> job_id, status |-> status, at |-> at,
     last_log_count |-> last_log_count, yielded |-> yielded]
NotStreaming == Stream("idle", 0, "", 0, <<>>)

JobInit ==
    /\ db = EmptyDict
    /\ cache = EmptyDict
    /\ now = 0
    /\ pc = [j \in JobIds |-> "none"]
    /\ proc = [j \in JobIds |-> "none"]
    /\ returncode = [j \in JobIds |-> 0]
    /\ output_lines = [j \in JobIds |-> <<>>]
    /\ job_data = [j \in JobIds |-> NoRequest]
    /\ cancel_ack = [j \in JobIds |-> NoCancel]
    /\ lastOp = NoOp
    /\ client = NotStreaming

\* no resolution has been asked for
ResolverIdle ==
    /\ registry = EmptyDict
    /\ requested = <<>>
    /\ calls = <<>>

Init == JobInit /\ ResolverIdle

\* the event loop is inside a stretch of a task that does not suspend
NoAtomic == \A j \in DOMAIN pc : pc[j] # "started"

\* status the serving manager holds for a job ("" if it has none)
StatusOf(j) ==
    IF job_exists(cache, db, j) THEN get_job(cache, db, j).status ELSE ""

BoolStr(b) == IF b THEN "True" ELSE "False"

\* wall clock advances; the epoch is the creation of the first job
Tick ==
    /\ NoAtomic
    /\ DOMAIN db # {}
    /\ now < MaxTime
    /\ now' = now + 1
    /\ lastOp' = NoOp
    /\ UNCHANGED <<db, cache, pc, proc, returncode, output_lines, job_data,
                   cancel_ack>>
    /\ UNCHANGED resolver_vars
    /\ UNCHANGED client

\* POST /api/deploy/components with one request body
deploy_request(request) ==
    /\ NoAtomic
    /\ LET detail == request_error(request)
       IN  IF detail # ""
           THEN /\ lastOp' = Op("deploy_components", 0, detail)
                /\ UNCHANGED <<db, cache, pc, job_data>>
           ELSE \E job_id \in DOMAIN pc :
                  \* uuid4: an id no job has had
                  /\ pc[job_id] = "none"
                  /\ \A k \in DOMAIN pc : k < job_id => pc[k] # "none"
                  /\ LET r == create_job(cache, db, job_id, request, now)
                     IN  /\ cache' = r.cache
                         /\ db' = r.db
                  \* background_tasks.add_task(execute_deployment_job, ...)
                  /\ pc' = [pc EXCEPT ![job_id] = "scheduled"]
                  /\ job_data' = [job_data EXCEPT ![job_id] = request]
                  /\ lastOp' = Op("deploy_components", job_id, "queued")
    /\ UNCHANGED <<now, proc, returncode, output_lines, cancel_ack>>
    /\ UNCHANGED resolver_vars
    /\ UNCHANGED client

deploy_components ==
    \E environment \in RequestEnvironments, components \in RequestComponents :
      deploy_request(Request(environment, components))

\* DELETE /api/jobs/{job_id}
cancel ==
    /\ NoAtomic
    /\ \E job_id \in JobIds :
         LET r == cancel_job(cache, db, job_id, now)
         IN  /\ cache' = r.cache
             /\ db' = r.db
             /\ lastOp' = Op("cancel_job", job_id, BoolStr(r.ret))
             /\ cancel_ack' =
                  IF r.ret
                  THEN [cancel_ack EXCEPT ![job_id] =
                          IF StatusOf(job_id) = RUNNING
                             /\ proc[job_id] = "running"
                          THEN "live" ELSE "idle"]
                  ELSE cancel_ack
    /\ UNCHANGED <<now, pc, proc, returncode, output_lines, job_data>>
    /\ UNCHANGED resolver_vars
    /\ UNCHANGED client

\* the update execute_deployment_job opens with
StartUpdate(j) ==
    update_job_status(cache, db, j, RUNNING,
                      Message("Starting deployment..."), NoResult, now)

\* execute_deployment_job, first statement
TaskStart(j) ==
    /\ NoAtomic
    /\ pc[j] = "scheduled"
    /\ cache' = StartUpdate(j).cache
    /\ db' = StartUpdate(j).db
    /\ pc' = [pc EXCEPT ![j] = "started"]
    /\ lastOp' = NoOp
    /\ UNCHANGED <<now, proc, returncode, output_lines, job_data, cancel_ack>>
    /\ UNCHANGED resolver_vars
    /\ UNCHANGED client

\* the closing update, were it to leave the job Running
FinalUpdate_running(j, result) ==
    update_job_status(cache, db, j, RUNNING,
                      Message("Starting deployment..."), result, now)

\* the update execute_deployment_job makes with the executor's result
FinalUpdate(j, result) ==
    IF result.success
    THEN update_job_status(cache, db, j, COMPLETED,
                           Message("Deployment completed successfully"),
                           result, now)
    ELSE update_job_status(cache, db, j, FAILED,
                           MessageWith("Deployment failed", result.error),
                           result, now)

RecordResult(j, result) ==
    /\ cache' = FinalUpdate(j, result).cache
    /\ db' = FinalUpdate(j, result).db

\* execute_component_deployment up to the spawn of the command
TaskValidate(j) ==
    /\ pc[j] = "started"
    /\ \E inventory_exists \in BOOLEAN :
         LET data == job_data[j]
             err == validation_error(data.environment, data.components,
                                     inventory_exists)
         IN  IF err # NoError
             THEN /\ RecordResult(j, ErrorResult(err))
                  /\ pc' = [pc EXCEPT ![j] = "done"]
             ELSE /\ pc' = [pc EXCEPT ![j] = "spawning"]
                  /\ UNCHANGED <<db, cache>>
    /\ lastOp' = NoOp
    /\ UNCHANGED <<now, proc, returncode, output_lines, job_data, cancel_ack>>
    /\ UNCHANGED resolver_vars
    /\ UNCHANGED client

\* the component list in the command line of the external tool:
\* --extra-vars selected_components=json.dumps(components), components
\* being the job's request data as the background task passes it
selected_components(j) == job_data[j].components

\* await asyncio.create_subprocess_exec(...): the child starts, or the
\* spawn raises and the except branch logs the error and reports -1
TaskSpawn(j) ==
    /\ NoAtomic
    /\ pc[j] = "spawning"
    /\ \/ /\ proc' = [proc EXCEPT ![j] = "running"]
          /\ pc' = [pc EXCEPT ![j] = "reading"]
          /\ UNCHANGED <<db, cache>>
       \/ LET logged == add_job_log(FreshManager, db, j,
                                    ErrorLine(SpawnError), now)
              cmd == CommandResult(-1, <<>>, SpawnError)
              result == DeploymentResult(cmd)
              r == update_job_status(cache, logged.db, j, FAILED,
                      MessageWith("Deployment failed", result.error),
                      result, now)
          IN  /\ cache' = r.cache
              /\ db' = r.db
              /\ pc' = [pc EXCEPT ![j] = "done"]
              /\ proc' = [proc EXCEPT ![j] = "spawn_failed"]
    /\ lastOp' = NoOp
    /\ UNCHANGED <<now, returncode, output_lines, job_data, cancel_ack>>
    /\ UNCHANGED resolver_vars
    /\ UNCHANGED client

\* the child exits on its own
ProcExit(j) ==
    /\ NoAtomic
    /\ proc[j] = "running"
    /\ \E rc \in ExitCodes : returncode' = [returncode EXCEPT ![j] = rc]
    /\ proc' = [proc EXCEPT ![j] = "exited"]
    /\ lastOp' = NoOp
    /\ UNCHANGED <<db, cache, now, pc, output_lines, job_data, cancel_ack>>
    /\ UNCHANGED resolver_vars
    /\ UNCHANGED client

\* one turn of "async for line in process.stdout": the child writes its
\* next line, the executor reads it and hands it to a JobManager
\* constructed for this line
TaskReadLine(j) ==
    /\ NoAtomic
    /\ pc[j] = "reading"
    /\ proc[j] = "running"
    /\ Len(output_lines[j]) < MaxLines
    /\ LET line_str == OutputLine(Len(output_lines[j]) + 1)
           r == add_job_log(FreshManager, db, j, line_str, now)
       IN  /\ db' = r.db
           /\ output_lines' = [output_lines EXCEPT ![j] = Append(@, line_str)]
    /\ lastOp' = NoOp
    /\ UNCHANGED <<cache, now, pc, proc, returncode, job_data, cancel_ack>>
    /\ UNCHANGED resolver_vars
    /\ UNCHANGED client

\* what execute_component_deployment returns once the process has exited
FinishedResult(j) ==
    DeploymentResult(CommandResult(returncode[j], output_lines[j], NoError))

\* end of output and process.wait(): the result goes back to
\* execute_deployment_job, which records the final status
TaskFinish(j) ==
    /\ NoAtomic
    /\ pc[j] = "reading"
    /\ proc[j] = "exited"
    /\ RecordResult(j, FinishedResult(j))
    /\ pc' = [pc EXCEPT ![j] = "done"]
    /\ lastOp' = NoOp
    /\ UNCHANGED <<now, proc, returncode, output_lines, job_data, cancel_ack>>
    /\ UNCHANGED resolver_vars
    /\ UNCHANGED client

Next ==
    \/ Tick
    \/ deploy_components
    \/ cancel
    \/ \E j \in JobIds : TaskStart(j)
    \/ \E j \in JobIds : TaskValidate(j)
    \/ \E j \in JobIds : TaskSpawn(j)
    \/ \E j \in JobIds : ProcExit(j)
    \/ \E j \in JobIds : TaskReadLine(j)
    \/ \E j \in JobIds : TaskFinish(j)

Spec == Init /\ [][Next]_vars

\* The event loop runs every task that is ready: a task standing at a step
\* of its own takes it.  Nothing makes the child process exit or write.
TaskFairness ==
    \A j \in JobIds :
      /\ WF_vars(TaskStart(j))
      /\ WF_vars(TaskValidate(j))
      /\ WF_vars(TaskSpawn(j))
      /\ WF_vars(TaskFinish(j))

FairSpec == Spec /\ TaskFairness

\* -------------------------------------------------------- log streaming
\* OAAnsibleClient.stream_job_logs(job_id): last_log_count = 0
stream_job_logs ==
    /\ client.at = "idle"
    /\ \E job_id \in JobIds :
         /\ job_exists(cache, db, job_id)
         /\ client' = Stream("get_job", job_id, "", 0, <<>>)
    /\ UNCHANGED <<db, cache, now, pc, proc, returncode, output_lines,
                   job_data, cancel_ack, lastOp>>
    /\ UNCHANGED resolver_vars

\* job = await self.get_job(job_id); status = job["status"]: the server
\* answers GET /api/jobs/{job_id} from its JobManager
StreamGetJob ==
    /\ NoAtomic
    /\ client.at = "get_job"
    /\ client' = [client EXCEPT
                    !.status = get_job(cache, db, client.job_id).status,
                    !.at = "get_job_logs"]
    /\ UNCHANGED <<db, cache, now, pc, proc, returncode, output_lines,
                   job_data, cancel_ack, lastOp>>
    /\ UNCHANGED resolver_vars

\* logs = await self.get_job_logs(job_id); the entries of
\* logs[last_log_count:] are yielded; last_log_count = len(logs); the loop
\* breaks if the status read before was a final one, else sleeps and polls
StreamGetLogs ==
    /\ NoAtomic
    /\ client.at = "get_job_logs"
    /\ LET logs == get_job_logs(cache, db, client.job_id)
           delta == SubSeq(logs, client.last_log_count + 1, Len(logs))
       IN  client' = [client EXCEPT
                        !.yielded = client.yielded \o delta,
                        !.last_log_count = Len(logs),
                        !.at = IF client.status \in TerminalStatus
                               THEN "stopped" ELSE "get_job"]
    /\ UNCHANGED <<db, cache, now, pc, proc, returncode, output_lines,
                   job_data, cancel_ack, lastOp>>
    /\ UNCHANGED resolver_vars

NextStream ==
    \/ Next
    \/ stream_job_logs
    \/ StreamGetJob
    \/ StreamGetLogs

SpecStream == Init /\ [][NextStream]_vars

\* ------------------------------------------------------- store failures
\* "except Exception as e" of execute_deployment_job: one more
\* update_job_status, which reaches the table or raises in its turn
TaskBoundary(c, d, j, err, t, store_ok) ==
    IF store_ok
    THEN update_job_status(c, d, j, FAILED,
                           MessageWith("Job execution error", err),
                           NoResult, t)
    ELSE update_job_status_raises(c, d, j, FAILED,
                                  MessageWith("Job execution error", err),
                                  NoResult, t)

\* the task ends in its except block (pc "done"), or the exception leaves
\* execute_deployment_job (pc "raised")
HandleStoreError(j, raised) ==
    \E store_ok \in BOOLEAN :
      LET r == TaskBoundary(raised.cache, raised.db, j, StoreError, now,
                            store_ok)
      IN  /\ cache' = r.cache
          /\ db' = r.db
          /\ pc' = [pc EXCEPT ![j] = IF store_ok THEN "done" ELSE "raised"]

\* the table cannot be written when the task records Running
StoreFailsAtStart(j) ==
    /\ NoAtomic
    /\ pc[j] = "scheduled"
    /\ HandleStoreError(j,
          update_job_status_raises(cache, db, j, RUNNING,
                                   Message("Starting deployment..."),
                                   NoResult, now))
    /\ lastOp' = NoOp
    /\ UNCHANGED <<now, proc, returncode, output_lines, job_data, cancel_ack>>
    /\ UNCHANGED resolver_vars
    /\ UNCHANGED client

\* the table cannot be written when the task records the final status
StoreFailsAtFinish(j) ==
    /\ NoAtomic
    /\ pc[j] = "reading"
    /\ proc[j] = "exited"
    /\ HandleStoreError(j,
          Ret(FinalUpdate(j, FinishedResult(j)).cache, db, "raise"))
    /\ lastOp' = NoOp
    /\ UNCHANGED <<now, proc, returncode, output_lines, job_data, cancel_ack>>
    /\ UNCHANGED resolver_vars
    /\ UNCHANGED client

NextStore ==
    \/ Next
    \/ \E j \in JobIds : StoreFailsAtStart(j)
    \/ \E j \in JobIds : StoreFailsAtFinish(j)

SpecStore == Init /\ [][NextStore]_vars

\* --------------------------------------------------- concurrency ceiling
\* max_concurrent_jobs of the server configuration
max_concurrent_jobs == 5

\* one job more than the configured ceiling
CeilingJobIds == 1..(max_concurrent_jobs + 1)

CeilingInit ==
    /\ db = EmptyDict
    /\ cache = EmptyDict
    /\ now = 0
    /\ pc = [j \in CeilingJobIds |-> "none"]
    /\ proc = [j \in CeilingJobIds |-> "none"]
    /\ returncode = [j \in CeilingJobIds |-> 0]
    /\ output_lines = [j \in CeilingJobIds |-> <<>>]
    /\ job_data = [j \in CeilingJobIds |-> NoRequest]
    /\ cancel_ack = [j \in CeilingJobIds |-> NoCancel]
    /\ lastOp = NoOp
    /\ client = NotStreaming
    /\ ResolverIdle

\* POST /api/deploy/components with a request that passes the checks.  The
\* jobs are followed until their child processes are alive.
submit == deploy_request(Request("staging", <<"macos-api">>))

NextCeiling ==
    \/ submit
    \/ \E j \in CeilingJobIds : TaskStart(j)
    \/ \E j \in CeilingJobIds : TaskValidate(j)
    \/ \E j \in CeilingJobIds : TaskSpawn(j)

SpecCeiling == CeilingInit /\ [][NextCeiling]_vars

\* ------------------------------------------------------------ termination
\* jobs of one request, their tasks and children, and cancellations
NextLive ==
    \/ submit
    \/ cancel
    \/ \E j \in JobIds : TaskStart(j)
    \/ \E j \in JobIds : TaskValidate(j)
    \/ \E j \in JobIds : TaskSpawn(j)
    \/ \E j \in JobIds : ProcExit(j)
    \/ \E j \in JobIds : TaskReadLine(j)
    \/ \E j \in JobIds : TaskFinish(j)

\* every child process exits in the end
ProcessExits == \A j \in JobIds : WF_vars(ProcExit(j))

SpecLive == Init /\ [][NextLive]_vars /\ TaskFairness /\ ProcessExits

\* -------------------------------------------------------------- retention
\* The server has been up since MaxDays days before the end of a month.
RetentionInit ==
    /\ db = EmptyDict
    /\ cache = EmptyDict
    /\ now = DaysInMonth - MaxDays
    /\ pc = [j \in JobIds |-> "none"]
    /\ proc = [j \in JobIds |-> "none"]
    /\ returncode = [j \in JobIds |-> 0]
    /\ output_lines = [j \in JobIds |-> <<>>]
    /\ job_data = [j \in JobIds |-> NoRequest]
    /\ cancel_ack = [j \in JobIds |-> NoCancel]
    /\ lastOp = NoOp
    /\ client = NotStreaming
    /\ ResolverIdle

\* a day goes by, up to the first day of the next month
DayPasses ==
    /\ NoAtomic
    /\ now < DaysInMonth
    /\ now' = now + 1
    /\ lastOp' = NoOp
    /\ UNCHANGED <<db, cache, pc, proc, returncode, output_lines, job_data,
                   cancel_ack>>
    /\ UNCHANGED resolver_vars
    /\ UNCHANGED client

\* job_manager.cleanup_old_jobs() with the configured retention
cleanup ==
    /\ NoAtomic
    /\ LET r == cleanup_old_jobs(cache, db, job_cleanup_days, now)
       IN  /\ cache' = r.cache
           /\ db' = r.db
    /\ lastOp' = NoOp
    /\ UNCHANGED <<now, pc, proc, returncode, output_lines, job_data,
                   cancel_ack>>
    /\ UNCHANGED resolver_vars
    /\ UNCHANGED client

NextRetention ==
    \/ DayPasses
    \/ submit
    \/ cancel
    \/ cleanup
    \/ \E j \in JobIds : TaskStart(j)
    \/ \E j \in JobIds : TaskValidate(j)
    \/ \E j \in JobIds : TaskSpawn(j)
    \/ \E j \in JobIds : ProcExit(j)
    \/ \E j \in JobIds : TaskFinish(j)

SpecRetention == RetentionInit /\ [][NextRetention]_vars

\* ---------------------------------------------------------------- restart
\* _row_to_job: the Job object built from a row's columns
row_to_job_no_logs(row) ==
    [job_id |-> row.job_id, status |-> row.status, data |-> row.data,
     message |-> row.message, created_at |-> row.created_at,
     updated_at |-> row.updated_at, result |-> row.result, logs |-> <<>>]

row_to_job(row) ==
    [job_id |-> row.job_id, status |-> row.status, data |-> row.data,
     message |-> row.message, created_at |-> row.created_at,
     updated_at |-> row.updated_at, result |-> row.result, logs |-> row.logs]

\* _load_jobs_cache at time t (in days): the rows with
\* created_at > datetime('now', '-24 hours').  created_at is an isoformat
\* text ("2026-01-02T10:00:00") and sqlite's datetime() has a blank after
\* the date, so the comparison of the two texts is decided by the dates,
\* and a row created on the date of the bound passes ("T" > " ").
load_jobs_cache(d, t) ==
    LET recent == {job_id \in DOMAIN d : d[job_id].created_at + 1 >= t}
    IN  [job_id \in recent |-> row_to_job(d[job_id])]

\* The server has been up since MaxUptime days before the end of a month.
RestartInit ==
    /\ db = EmptyDict
    /\ cache = EmptyDict
    /\ now = DaysInMonth - MaxUptime
    /\ pc = [j \in JobIds |-> "none"]
    /\ proc = [j \in JobIds |-> "none"]
    /\ returncode = [j \in JobIds |-> 0]
    /\ output_lines = [j \in JobIds |-> <<>>]
    /\ job_data = [j \in JobIds |-> NoRequest]
    /\ cancel_ack = [j \in JobIds |-> NoCancel]
    /\ lastOp = NoOp
    /\ client = NotStreaming
    /\ ResolverIdle

\* the server process ends and is started again: its tasks are gone, a
\* child that was running goes on without a reader, and the startup
\* handler's job_manager.initialize() fills the new manager's cache
restart ==
    /\ cache' = load_jobs_cache(db, now)
    /\ pc' = [j \in DOMAIN pc |->
                IF pc[j] \in {"scheduled", "started", "spawning", "reading"}
                THEN "killed" ELSE pc[j]]
    /\ proc' = [j \in DOMAIN proc |->
                  IF proc[j] = "running" THEN "orphaned" ELSE proc[j]]
    /\ lastOp' = Op("restart", 0, "")
    /\ UNCHANGED <<db, now, returncode, output_lines, job_data, cancel_ack>>
    /\ UNCHANGED resolver_vars
    /\ UNCHANGED client

NextRestart ==
    \/ DayPasses
    \/ submit
    \/ restart
    \/ \E j \in JobIds : TaskStart(j)
    \/ \E j \in JobIds : TaskValidate(j)
    \/ \E j \in JobIds : TaskSpawn(j)
    \/ \E j \in JobIds : ProcExit(j)
    \/ \E j \in JobIds : TaskReadLine(j)
    \/ \E j \in JobIds : TaskFinish(j)

SpecRestart == RestartInit /\ [][NextRestart]_vars

\* --------------------------------------------------------------- resolver
\* the lists of known names, up to MaxLen long, a resolution is asked for
Requests(reg) ==
    UNION {[1..n -> DOMAIN reg] : n \in 0..MaxLen}

ResolverInit ==
    /\ JobInit
    /\ registry \in {available_requires, scenario_requires}
    /\ requested \in Requests(registry)
    /\ calls = <<>>

Call(args, added, ret) ==
    [ret |-> ret, components |-> args, resolved |-> added]

\* one call of _resolve_component_dependencies(args).  Within the process
\* a set built by the same adds iterates the same way again, so the call
\* returns what an earlier call with the same adds returned.
resolve_call(args) ==
    /\ LET added == resolve_loop(registry, args, <<>>)
           earlier == {i \in 1..Len(calls) : calls[i].resolved = added}
       IN  \E ret \in
                 (IF earlier # {}
                  THEN {calls[i].ret : i \in earlier}
                  ELSE {sorted(iteration) :
                          iteration \in SetIterations(added)}) :
             calls' = Append(calls, Call(args, added, ret))
    /\ UNCHANGED <<registry, requested>>
    /\ UNCHANGED job_vars

\* the request is resolved, and resolved a second time
ResolveRequested ==
    /\ Len(calls) < 2
    /\ resolve_call(requested)

\* the sequence the first call returned is resolved in its turn
ResolveResolved ==
    /\ Len(calls) = 2
    /\ resolve_call(calls[1].ret)

NextResolver ==
    \/ ResolveRequested
    \/ ResolveResolved

SpecResolver == ResolverInit /\ [][NextResolver]_vars

\* the resolver over a table with a cycle or a dangling requirement
BadRegistryInit ==
    /\ JobInit
    /\ registry \in {cyclic_requires, dangling_requires}
    /\ requested \in Requests(registry)
    /\ calls = <<>>

SpecBadRegistry == BadRegistryInit /\ [][NextResolver]_vars

TypeOK ==
    /\ now \in Nat
    /\ DOMAIN db \subseteq DOMAIN pc
    /\ DOMAIN cache \subseteq DOMAIN pc
    /\ \A j \in DOMAIN db : db[j].status \in JobStatus
    /\ \A j \in DOMAIN pc :
         pc[j] \in {"none", "scheduled", "started", "spawning", "reading",
                    "done", "raised", "killed"}

\* ------------------------------------------------------------ properties
\* the transition table of the job state machine
Transitions ==
    {<<QUEUED, RUNNING>>, <<RUNNING, COMPLETED>>, <<RUNNING, FAILED>>,
     <<QUEUED, CANCELLED>>, <<RUNNING, CANCELLED>>}

\* the fields update_job_status writes
StatusFields(job) ==
    <<job.status, job.message, job.result, job.updated_at>>

\* the text lines of a log, without timestamps and without ERROR entries
LogLines(logs) ==
    LET lines == SelectSeq(logs, LAMBDA e : e.entry.text = "line")
    IN  [i \in 1..Len(lines) |-> lines[i].entry]

\* C1: every change of a job's stored status is one of Queued->Running,
\* Running->Completed, Running->Failed, Queued->Cancelled,
\* Running->Cancelled; no change leaves Completed, Failed or Cancelled.
StatusFollowsStateMachine ==
    [][\A j \in (DOMAIN db) \cap (DOMAIN db') :
         db'[j].status # db[j].status
           => <<db[j].status, db'[j].status>> \in Transitions]_vars

\* C2: an update_job_status call that requests a transition outside the
\* table (here: the task's opening call for Running on a job that is not
\* Queued, its closing call for Completed or Failed on a job that is not
\* Running) is rejected with a ConflictError and leaves the job's status,
\* message, result and updated_at as they were.
IllegalTransitionRejected ==
    [][\A j \in JobIds :
         /\ (TaskStart(j) /\ <<StatusOf(j), RUNNING>> \notin Transitions)
              => /\ StartUpdate(j).ret = "ConflictError"
                 /\ StatusFields(get_job(cache', db', j))
                      = StatusFields(get_job(cache, db, j))
                 /\ StatusFields(db'[j]) = StatusFields(db[j])
         /\ (TaskFinish(j) /\ StatusOf(j) # RUNNING)
              => /\ FinalUpdate(j, FinishedResult(j)).ret = "ConflictError"
                 /\ StatusFields(get_job(cache', db', j))
                      = StatusFields(get_job(cache, db, j))
                 /\ StatusFields(db'[j]) = StatusFields(db[j])]_vars

\* C3: cancel on a job that is already Completed, Failed or Cancelled
\* returns false and leaves the job (status, updated_at, message, result)
\* exactly as it was, in the cache and in the table.
CancelTerminalIsNoop ==
    [][\A j \in JobIds :
         (/\ lastOp'.op = "cancel_job"
          /\ lastOp'.job = j
          /\ StatusOf(j) \in TerminalStatus)
         => /\ lastOp'.ret = "False"
            /\ get_job(cache', db', j) = get_job(cache, db, j)
            /\ db'[j] = db[j]]_vars

CancelTerminalSeen ==
    /\ lastOp.op = "cancel_job"
    /\ lastOp.ret = "False"
    /\ StatusOf(lastOp.job) = COMPLETED
    /\ now > get_job(cache, db, lastOp.job).updated_at

\* C4: a job whose cancel was accepted while it was Running with a live
\* child process has that process stopped by terminate / kill; the process
\* does not run on to its natural exit.
CancelStopsProcess ==
    \A j \in JobIds :
      cancel_ack[j] = "live" => proc[j] # "exited"

LinesServedBeforeFinal ==
    \A j \in JobIds :
      (job_exists(cache, db, j) /\ StatusOf(j) \in {COMPLETED, FAILED})
        => LogLines(get_job_logs(cache, db, j)) = output_lines[j]

\* C7: right after an accepted create request, get_job returns the job
\* Queued with created_at = updated_at, and its background task has been
\* scheduled but has made no status transition.
CreatedJobIsQueued ==
    (lastOp.op = "deploy_components" /\ lastOp.job # 0)
      => /\ job_exists(cache, db, lastOp.job)
         /\ LET job == get_job(cache, db, lastOp.job)
            IN  /\ job.status = QUEUED
                /\ job.created_at = job.updated_at
                /\ db[lastOp.job] = job
         /\ pc[lastOp.job] = "scheduled"

JobCreated ==
    /\ lastOp.op = "deploy_components"
    /\ lastOp.job # 0
    /\ job_data[lastOp.job].environment \in environments
    /\ job_data[lastOp.job].components # <<>>

\* C8: a create request naming a component that is not in the registry is
\* rejected with a ValidationError naming exactly the unknown names and
\* creates no job: the list_jobs total is the same before and after.
UnknownComponentRejected ==
    [][\A environment \in RequestEnvironments,
          components \in RequestComponents :
         (/\ InvalidComponents(components) # <<>>
          /\ lastOp'.op = "deploy_components"
          /\ deploy_request(Request(environment, components)))
         => /\ lastOp'.job = 0
            /\ list_jobs_total(db') = list_jobs_total(db)]_vars

\* C9: a create request with an empty component list or an environment
\* outside the fixed set is rejected with no side effect: no row, no cache
\* entry, no background task.
InvalidRequestHasNoEffect ==
    [][\A environment \in RequestEnvironments,
          components \in RequestComponents :
         (/\ \/ components = <<>>
             \/ environment \notin environments
          /\ lastOp'.op = "deploy_components"
          /\ deploy_request(Request(environment, components)))
         => /\ lastOp'.job = 0
            /\ lastOp'.ret
                 \in {"No components specified", "Invalid environment"}
            /\ db' = db
            /\ cache' = cache
            /\ pc' = pc]_vars

InvalidRequestSeen ==
    /\ lastOp.op = "deploy_components"
    /\ lastOp.job = 0
    /\ lastOp.ret = "Invalid environment"

\* C10: a job that was never cancelled and whose task has finished is
\* Completed with result.success exactly when the tool exited 0, and is
\* Failed with result.success false, carrying the captured output or the
\* spawn error, when the tool exited nonzero or could not be spawned.
OutcomeDecidesStatus ==
    \A j \in JobIds :
      (pc[j] = "done" /\ cancel_ack[j] = NoCancel)
        => LET job == get_job(cache, db, j)
           IN  /\ StatusFields(db[j]) = StatusFields(job)
               /\ (proc[j] = "exited" /\ returncode[j] = 0)
                    => /\ job.status = COMPLETED
                       /\ job.result.success
               /\ (proc[j] = "exited" /\ returncode[j] # 0)
                    => /\ job.status = FAILED
                       /\ ~job.result.success
                       /\ job.result.returncode = returncode[j]
                       /\ job.result.stdout = output_lines[j]
               /\ proc[j] = "spawn_failed"
                    => /\ job.status = FAILED
                       /\ ~job.result.success
                       /\ job.result.error = SpawnError
                       /\ job.message.error = SpawnError

NonzeroExitRecorded ==
    \E j \in JobIds :
      /\ pc[j] = "done"
      /\ cancel_ack[j] = NoCancel
      /\ proc[j] = "exited"
      /\ returncode[j] # 0
      /\ output_lines[j] # <<>>

\* C11: when a step of a job's background task raises (here: the table
\* cannot be written while the task records Running or the final status),
\* the exception is caught at the task boundary: the task ends, the job is
\* Failed in the table and in the cache with the captured error in its
\* message, and no exception leaves the task.
TaskFailureRecorded ==
    [][\A j \in JobIds :
         (StoreFailsAtStart(j) \/ StoreFailsAtFinish(j))
           => /\ pc'[j] = "done"
              /\ db'[j].status = FAILED
              /\ db'[j].message.error = StoreError
              /\ get_job(cache', db', j).status = FAILED
              /\ get_job(cache', db', j).message.error = StoreError]_vars

\* C12: a Running job whose child process does not exit is stopped by the
\* per-job timeout (process terminated, job marked Failed with a timeout
\* message): a job that is Running over a live child process does not stay
\* so forever, whether or not the process ever exits by itself.
RunningJobTimesOut ==
    \A j \in JobIds :
      (StatusOf(j) = RUNNING /\ proc[j] = "running")
        ~> (StatusOf(j) # RUNNING \/ proc[j] # "running")

\* jobs whose child process is alive, jobs the serving manager has Running
LiveProcesses == {j \in DOMAIN proc : proc[j] = "running"}
RunningJobs == {j \in DOMAIN pc : StatusOf(j) = RUNNING}

\* C13: at every moment the number of Running jobs, and of live child
\* processes, is at most the concurrency ceiling; a submission beyond the
\* ceiling stays Queued and unspawned until a running job is terminal.
CeilingRespected ==
    /\ Cardinality(LiveProcesses) <= max_concurrent_jobs
    /\ Cardinality(RunningJobs) <= max_concurrent_jobs

\* C14: jobs waiting Queued are promoted to Running in creation order: no
\* job goes from Queued to Running while a job created before it (ids are
\* handed out in creation order) is still Queued.
PromotedInCreationOrder ==
    [][\A j \in DOMAIN pc :
         (/\ StatusOf(j) = QUEUED
          /\ job_exists(cache', db', j)
          /\ get_job(cache', db', j).status = RUNNING)
         => \A i \in DOMAIN pc : i < j => StatusOf(i) # QUEUED]_vars

\* C15: update_job_status, add_job_log and cancel_job calls on one job act
\* as if run one at a time: no log line and no status, message or result
\* write is lost, and the row and the record the serving manager holds
\* both carry the effects of all of them.
SerialEffectsKept ==
    \A j \in (DOMAIN db) \cap (DOMAIN cache) :
      /\ LogLines(db[j].logs) = output_lines[j]
      /\ cache[j].logs = db[j].logs
      /\ cache[j].status = db[j].status
      /\ cache[j].message = db[j].message
      /\ cache[j].result = db[j].result

\* C16: after cleanup with the 7-day retention window, a job that became
\* Completed 10 days earlier is gone from the table and from the cache:
\* get_job does not find it and list_jobs, which reads the table, does not
\* contain it.
OldCompletedJobPurged ==
    [][cleanup =>
         \A j \in JobIds :
           (/\ job_exists(cache, db, j)
            /\ get_job(cache, db, j).status = COMPLETED
            /\ get_job(cache, db, j).updated_at + job_cleanup_days + 3 <= now)
           => /\ ~job_exists(cache', db', j)
              /\ j \notin DOMAIN db']_vars

\* C17: cleanup removes only terminal jobs past the retention window: a
\* job it removes from the table or from the cache was Completed, Failed
\* or Cancelled and had been so for longer than the window.
OnlyExpiredTerminalPurged ==
    [][cleanup =>
         \A j \in JobIds :
           (\/ j \in (DOMAIN db) \ (DOMAIN db')
            \/ j \in (DOMAIN cache) \ (DOMAIN cache'))
           => /\ get_job(cache, db, j).status \in TerminalStatus
              /\ get_job(cache, db, j).updated_at < now - job_cleanup_days]_vars

\* the requested components and all they reach through requires
RECURSIVE Reachable(_, _)
Reachable(reg, names) ==
    LET more == names \cup UNION {Range(reg[c]) : c \in names \cap DOMAIN reg}
    IN  IF more = names THEN names ELSE Reachable(reg, more)

NoDuplicates(s) == \A i, k \in 1..Len(s) : s[i] = s[k] => i = k

\* C18: for every list of known names the resolver returns a sequence
\* without duplicates whose elements are exactly the requested components
\* and everything reachable from them through requires; with tracker
\* requires [python], python requires [base-system], resolving [tracker]
\* gives exactly [base-system, python, tracker].
ResolvedIsClosure ==
    \A i \in 1..Len(calls) :
      /\ NoDuplicates(calls[i].ret)
      /\ Range(calls[i].ret) = Reachable(registry, Range(calls[i].components))
      /\ (registry = scenario_requires /\ calls[i].components = <<"tracker">>)
           => calls[i].ret = <<"base-system", "python", "tracker">>

ScenarioResolved ==
    /\ registry = scenario_requires
    /\ Len(calls) > 0
    /\ calls[1].components = <<"tracker">>
    /\ calls[1].ret = <<"base-system", "python", "tracker">>

\* C19: in every resolved sequence the components of the priority list
\* that are present come first, in the list's order, and the other
\* components follow in the order in which the expansion first met them.
PriorityThenFirstSeen ==
    \A i \in 1..Len(calls) :
      calls[i].ret =
        SelectSeq(priority_order, LAMBDA c : c \in Range(calls[i].resolved))
        \o SelectSeq(calls[i].resolved,
                     LAMBDA c : c \notin Range(priority_order))

\* C20: the resolver is idempotent: two calls on the same request return
\* the same sequence, and resolving a sequence it returned gives that
\* sequence back.
ResolveIdempotent ==
    \A i, k \in 1..Len(calls) :
      /\ calls[i].components = calls[k].components
           => calls[i].ret = calls[k].ret
      /\ calls[k].components = calls[i].ret
           => calls[k].ret = calls[i].ret

\* a name reached from the request lies on a requires-cycle, or is
\* required and absent from the table
OnCycle(reg, c) == c \in DOMAIN reg /\ c \in Reachable(reg, Range(reg[c]))

Unresolvable(reg, names) ==
    \E c \in Reachable(reg, names) : c \notin DOMAIN reg \/ OnCycle(reg, c)

\* C21: on a table with a requires-cycle or an unresolvable chain the
\* resolver terminates and fails with an error: no call whose request
\* reaches the cycle or the missing name returns a sequence (calls holds
\* the calls that returned one).
BadRegistryFailsFast ==
    \A i \in 1..Len(calls) : ~Unresolvable(registry, Range(calls[i].components))

\* what the dependency resolver can return for a request over the
\* executor's table
ResolverOutputs(comps) ==
    {sorted(iteration) :
       iteration \in SetIterations(resolve_loop(available_requires, comps,
                                                <<>>))}

\* C22: the component sequence in the command of a job's external tool is
\* the dependency resolver's output for the job's requested components
\* (a request for [macos-api] runs the tool with
\* [base-system, python, macos-api]), not the raw requested list.
ToolRunsResolvedOrder ==
    \A j \in DOMAIN proc :
      proc[j] \in {"running", "exited"}
        => /\ selected_components(j) \in ResolverOutputs(job_data[j].components)
           /\ job_data[j].components = <<"macos-api">>
                => selected_components(j) = <<"base-system", "python", "macos-api">>

\* C23: once a job is Completed, Failed or Cancelled, its message and its
\* result stay as they are in every later step (as long as the job
\* exists), whatever the background task and late output lines do.
TerminalRecordFrozen ==
    [][\A j \in JobIds :
         (/\ job_exists(cache, db, j)
          /\ StatusOf(j) \in TerminalStatus
          /\ job_exists(cache', db', j))
         => /\ get_job(cache', db', j).message = get_job(cache, db, j).message
            /\ get_job(cache', db', j).result = get_job(cache, db, j).result
            /\ db'[j].message = db[j].message
            /\ db'[j].result = db[j].result]_vars

\* C25: in every sequence the resolver returns over the executor's table,
\* each component stands after all the components it requires, directly
\* or transitively.
RequirementsFirst ==
    registry = available_requires
      => \A i \in 1..Len(calls) :
           LET ret == calls[i].ret
           IN  \A p, q \in 1..Len(ret) :
                 ret[q] \in Reachable(registry, Range(registry[ret[p]]))
                   => q < p

\* C26: between Job Manager operations, what get_job and get_job_logs
\* serve for a job equals the job's persisted row, which list_jobs reads:
\* status, message, result, updated_at and logs, also while the executor
\* is appending lines.
CacheEqualsRow ==
    \A j \in DOMAIN db :
      job_exists(cache, db, j)
        => /\ StatusFields(get_job(cache, db, j)) = StatusFields(db[j])
           /\ get_job_logs(cache, db, j) = db[j].logs

\* C27: a job cancelled while Queued, before its background task started,
\* never becomes Running and its task never goes on towards spawning a
\* child process: the task, when it runs, ends at once.
CancelledQueuedNeverRuns ==
    [][\A j \in JobIds :
         (/\ pc[j] = "scheduled"
          /\ job_exists(cache, db, j)
          /\ StatusOf(j) = CANCELLED)
         => /\ get_job(cache', db', j).status # RUNNING
            /\ db'[j].status # RUNNING
            /\ pc'[j] \in {"scheduled", "done"}]_vars

\* C28: when the table writes of a task step all fail, the error reaches
\* the caller (it leaves the task) and the job is unchanged: the row and
\* what get_job and get_job_logs serve keep the previous status, message,
\* result, updated_at and logs.
FailedWriteLeavesJob ==
    [][\A j \in JobIds :
         (/\ StoreFailsAtStart(j) \/ StoreFailsAtFinish(j)
          /\ pc'[j] = "raised")
         => /\ db'[j] = db[j]
            /\ StatusFields(get_job(cache', db', j))
                 = StatusFields(get_job(cache, db, j))
            /\ get_job_logs(cache', db', j) = get_job_logs(cache, db, j)]_vars

\* C24: a client streaming a job's logs receives the job's log entries
\* once each and in append order (what it has been given is always a
\* prefix of the job's log), and when its stream ends on a final status
\* it has been given every entry appended to the job.
StreamDeliversLog ==
    client.at # "idle"
      => /\ IsPrefix(client.yielded, db[client.job_id].logs)
         /\ (client.at = "stopped" /\ pc[client.job_id] = "done")
              => client.yielded = db[client.job_id].logs

\* C30: after a restart, get_job finds every job of the table and returns
\* the status, message, result, timestamps and logs of its row, whether
\* the new cache holds the job or not; the table is as it was, and the
\* logs served hold every line the executor had logged.
RestartServesStore ==
    [][restart =>
         /\ db' = db
         /\ \A j \in DOMAIN db :
              /\ job_exists(cache', db', j)
              /\ get_job(cache', db', j) = db[j]
              /\ LogLines(get_job_logs(cache', db', j)) = output_lines[j]]_vars

\* a restart has reloaded a Completed job together with its log lines
RestartedWithLogs ==
    /\ lastOp.op = "restart"
    /\ \E j \in DOMAIN cache :
         /\ cache[j].status = COMPLETED
         /\ Len(cache[j].logs) = MaxLines

\* C29: under fair scheduling of the background tasks and with child
\* processes that exit, every created job reaches Completed, Failed or
\* Cancelled and from some point on stays in such a status: no job remains
\* Queued or Running forever.
JobsTerminate ==
    \A j \in JobIds :
      job_exists(cache, db, j) ~> [](StatusOf(j) \in TerminalStatus)

\* a job's task has run to its end and recorded Completed
TaskRanToCompleted ==
    \E j \in JobIds :
      /\ pc[j] = "done"
      /\ proc[j] = "exited"
      /\ StatusOf(j) = COMPLETED

====
